---- MODULE Spec2Model ----
(***************************************************************************)
(* Model of the predictive-maintenance scoring engine of iPump            *)
(* (src/ai_models.py): the failure-model lifecycle manager                 *)
(* (AdvancedFailurePredictor + ModelManager + DataPreprocessor), its       *)
(* persisted artifacts, the two threads that drive it (the UI thread that  *)
(* calls predict_failure and the ModelTrainingThread of                    *)
(* src/ui/settings.py), and the scoring heuristics layered on the model    *)
(* output.                                                                 *)
(*                                                                         *)
(* Numbers.  Sensor values, importances and thresholds are integers in     *)
(* hundredths (temperature 85 is 8500, oil_level 0.2 is 20).  The model    *)
(* probability is in thousandths (0.8 is 800).  Confidence is computed in  *)
(* units of 1e-5 and rounded to units of 1e-4 as round(x, 4) does.         *)
(*                                                                         *)
(* A fitted object is tagged with the number of the training run that      *)
(* fitted it; 0 tags an unfitted object.                                   *)
(***************************************************************************)
EXTENDS Integers, Sequences, FiniteSets, TLC

\* ------------------------------------------------------------------ bounds
MaxRuns == 2
MaxRestarts == 1
MaxFaults == 1

\* --------------------------------------------------------------- constants
Unfitted == 0

Features ==
  << "vibration_x", "vibration_y", "vibration_z", "temperature", "pressure",
     "flow_rate", "power_consumption", "operating_hours",
     "bearing_temperature", "oil_level", "oil_quality" >>

FeatureSet == { Features[i] : i \in 1..Len(Features) }

Threads == { "ui", "trainer" }

\* A file on disk: absent, unreadable (truncated by a write that failed
\* part-way), or holding what was dumped into it.
NoFile == [st |-> "absent"]
CorruptFile == [st |-> "corrupt"]
FileOf(c) == [st |-> "ok", content |-> c]

\* DataPreprocessor(): a RobustScaler and a SimpleImputer, both unfitted.
DataPreprocessor == [imputer |-> Unfitted, scaler |-> Unfitted]

EmptyImportance == [k \in {} |-> 0]

\* The importance maps a fitted classifier may report (hundredths); the
\* scoring specification starts from each of them.
ImportanceMaps ==
  { [k \in FeatureSet |->
       CASE k = "vibration_x" -> 5
         [] k = "vibration_y" -> 30
         [] k = "temperature" -> 20
         [] OTHER -> 5],
    [k \in FeatureSet |->
       CASE k = "vibration_x" -> 40
         [] k = "temperature" -> 10
         [] OTHER -> 5] }

\* The training data is generated with a fixed seed and the classifier has
\* a fixed random_state: every training run of the lifecycle specification
\* reports the same importances.
FittedImportance ==
  [k \in FeatureSet |->
     CASE k = "vibration_x" -> 5
       [] k = "vibration_y" -> 30
       [] k = "temperature" -> 20
       [] OTHER -> 5]

VARIABLES
  modelFile,          \* models/failure_model.pkl
  prepFile,           \* models/preprocessor.joblib
  metaFile,           \* models/model_metadata.json
  model,              \* self.model: run that fitted it, or Unfitted
  preprocessor,       \* self.preprocessor: [imputer, scaler]
  is_trained,         \* self.is_trained
  accuracy,           \* self.accuracy: run that measured it, 0 for 0.0
  feature_importance, \* self.feature_importance
  model_history,      \* self.model_manager.model_history
  pc,                 \* position of each thread
  trainRun,           \* number of the training run a thread executes
  sensor_data,        \* argument of the predict_failure call in progress
  call,               \* the call in progress: Ready at entry, passes started
  scored,             \* what the call in progress transformed and scored with
  outcome,            \* how the predict_failure call ended
  trainOutcome,       \* how the last train_model call of a thread ended
  runs,               \* training runs started so far
  restarts,           \* process restarts so far
  faults,             \* failures injected so far
  detector,           \* the AdvancedAnomalyDetector object
  detection           \* the detect_anomalies call and what it returned

vars ==
  << modelFile, prepFile, metaFile, model, preprocessor, is_trained,
     accuracy, feature_importance, model_history, pc, trainRun, sensor_data,
     call, scored, outcome, trainOutcome, runs, restarts, faults, detector,
     detection >>

files == << modelFile, prepFile, metaFile >>
manager ==
  << model, preprocessor, is_trained, accuracy, feature_importance,
     model_history >>
callState == << sensor_data, call, scored, outcome >>
counters == << runs, restarts, faults >>
anomalyState == << detector, detection >>

NoSnapshot == [vals |-> [k \in {} |-> 0], nones |-> {}]
NoCall == [ready |-> FALSE, trainings |-> 0]
NoScored ==
  [imputer |-> Unfitted, scaler |-> Unfitted, model |-> Unfitted,
   probability |-> 0]
NoOutcome == [kind |-> "none"]
NoDetection == [kind |-> "none"]

\* AdvancedAnomalyDetector.__init__: contamination 0.1 (thousandths), not
\* trained.
AnomalyDetectorInit == [is_trained |-> FALSE, contamination |-> 100]

TrainPcs ==
  { "train_data", "train_imputer", "train_scaler", "train_cv", "train_fit",
    "train_eval", "train_dump_model", "train_dump_prep", "train_save_meta",
    "train_done" }

\* ------------------------------------------------------------ construction
\* ModelManager.__init__: the in-memory history always starts empty.
ModelManagerInit == << >>

\* _initialize_new_model: a fresh, unfitted XGBClassifier.
InitializeNewModel == Unfitted

\* load_model, as a function of the three files.  Returns the fields it
\* leaves on the manager.  The metadata file is read after is_trained was
\* set; a failure there reaches the except branch, which only replaces the
\* model.
LoadModel(mf, pf, tf) ==
  LET fresh == [model |-> InitializeNewModel, preprocessor |-> DataPreprocessor,
                is_trained |-> FALSE, accuracy |-> 0]
  IN
  IF mf.st = "absent" \/ pf.st = "absent" THEN fresh
  ELSE IF mf.st = "corrupt" THEN fresh
  ELSE IF pf.st = "corrupt" THEN fresh
  ELSE IF tf.st = "absent"
    THEN [model |-> mf.content, preprocessor |-> pf.content,
          is_trained |-> TRUE, accuracy |-> 0]
  ELSE IF tf.st = "corrupt"
    THEN [model |-> InitializeNewModel, preprocessor |-> pf.content,
          is_trained |-> TRUE, accuracy |-> 0]
  ELSE [model |-> mf.content, preprocessor |-> pf.content,
        is_trained |-> TRUE,
        accuracy |-> IF tf.content = << >> THEN 0
                     ELSE tf.content[Len(tf.content)].accuracy]

\* AdvancedFailurePredictor.__init__ in a new process: every thread of the
\* old process is gone, the files stay.
Construct ==
  /\ restarts < MaxRestarts
  /\ restarts' = restarts + 1
  /\ LET m == LoadModel(modelFile, prepFile, metaFile)
     IN /\ model' = m.model
        /\ preprocessor' = m.preprocessor
        /\ is_trained' = m.is_trained
        /\ accuracy' = m.accuracy
  /\ feature_importance' = EmptyImportance
  /\ model_history' = ModelManagerInit
  /\ pc' = [t \in Threads |-> "idle"]
  /\ trainRun' = [t \in Threads |-> 0]
  /\ sensor_data' = NoSnapshot
  /\ call' = NoCall
  /\ scored' = NoScored
  /\ outcome' = NoOutcome
  /\ trainOutcome' = [t \in Threads |-> "none"]
  /\ detector' = AnomalyDetectorInit
  /\ detection' = NoDetection
  /\ UNCHANGED << files, runs, faults >>

Init ==
  /\ modelFile = NoFile
  /\ prepFile = NoFile
  /\ metaFile = NoFile
  /\ model = LoadModel(NoFile, NoFile, NoFile).model
  /\ preprocessor = LoadModel(NoFile, NoFile, NoFile).preprocessor
  /\ is_trained = LoadModel(NoFile, NoFile, NoFile).is_trained
  /\ accuracy = LoadModel(NoFile, NoFile, NoFile).accuracy
  /\ feature_importance = EmptyImportance
  /\ model_history = ModelManagerInit
  /\ pc = [t \in Threads |-> "idle"]
  /\ trainRun = [t \in Threads |-> 0]
  /\ sensor_data = NoSnapshot
  /\ call = NoCall
  /\ scored = NoScored
  /\ outcome = NoOutcome
  /\ trainOutcome = [t \in Threads |-> "none"]
  /\ runs = 0
  /\ restarts = 0
  /\ faults = 0
  /\ detector = AnomalyDetectorInit
  /\ detection = NoDetection

\* ------------------------------------------------------------- snapshots
\* A snapshot is the dict passed to predict_failure: vals holds the keys
\* whose value is a number, nones the keys whose value is None.
Keys(s) == DOMAIN s.vals \cup s.nones

\* sensor_data.get(k, 0) for a key that does not hold None.
Get(s, k) == IF k \in DOMAIN s.vals THEN s.vals[k] ELSE 0

\* A comparison of sensor_data.get(k, 0) with a number raises TypeError
\* when the key is present and holds None.
HoldsNone(s, k) == k \in s.nones

BoolToInt(b) == IF b THEN 1 ELSE 0

\* round(x, 4): x in units of 1e-5, result in units of 1e-4, ties to even.
Round4(x) ==
  LET q == x \div 10
      r == x % 10
  IN IF r < 5 THEN q
     ELSE IF r > 5 THEN q + 1
     ELSE IF q % 2 = 0 THEN q ELSE q + 1

\* predict_failure, lines 359-369: the features recorded as missing.
MissingFeatures(s) ==
  SelectSeq(Features, LAMBDA f : f \notin DOMAIN s.vals)

\* predict_failure, lines 361-369: the vector handed to the preprocessor.
InputFeatures(s) ==
  [i \in 1..Len(Features) |->
     IF Features[i] \in DOMAIN s.vals THEN s.vals[Features[i]] ELSE 0]

\* ------------------------------------------------------------ RiskScorer
\* A count that takes a temperature of at most 85 for the critical one.
CriticalFactorsCold(s) ==
  BoolToInt(Get(s, "temperature") <= 8500)
  + BoolToInt(Get(s, "oil_level") < 20)
  + BoolToInt(Get(s, "vibration_x") > 600)

CriticalFactors(s) ==
  BoolToInt(Get(s, "temperature") > 8500)
  + BoolToInt(Get(s, "oil_level") < 20)
  + BoolToInt(Get(s, "vibration_x") > 600)

\* A scorer whose Critical band starts above 0.8 instead of at 0.8.
CalculateRiskLevelAbove(p, s) ==
  LET critical_factors == CriticalFactors(s)
      adjusted_probability == p + critical_factors * 100
  IN IF adjusted_probability > 800 \/ critical_factors >= 2
       THEN [level |-> "Critical", color |-> "#dc3545"]
     ELSE IF adjusted_probability >= 600
       THEN [level |-> "High", color |-> "#fd7e14"]
     ELSE IF adjusted_probability >= 400
       THEN [level |-> "Medium", color |-> "#ffc107"]
     ELSE IF adjusted_probability >= 200
       THEN [level |-> "Low", color |-> "#20c997"]
     ELSE [level |-> "Normal", color |-> "#198754"]

\* _calculate_risk_level; p in thousandths.
CalculateRiskLevel(p, s) ==
  LET critical_factors == CriticalFactors(s)
      adjusted_probability == p + critical_factors * 100
  IN IF adjusted_probability >= 800 \/ critical_factors >= 2
       THEN [level |-> "Critical", color |-> "#dc3545"]
     ELSE IF adjusted_probability >= 600
       THEN [level |-> "High", color |-> "#fd7e14"]
     ELSE IF adjusted_probability >= 400
       THEN [level |-> "Medium", color |-> "#ffc107"]
     ELSE IF adjusted_probability >= 200
       THEN [level |-> "Low", color |-> "#20c997"]
     ELSE [level |-> "Normal", color |-> "#198754"]

RiskLevelRaises(s) ==
  \E k \in {"temperature", "oil_level", "vibration_x"} : HoldsNone(s, k)

\* A confidence without the cap of 0.95.
CalculateConfidenceNoCap(p, s) ==
  LET base == p * 100
      boosted == IF {"temperature", "vibration_x", "oil_level"} \subseteq Keys(s)
                 THEN (base * 11) \div 10 ELSE base
      missing_data == Cardinality({ k \in DOMAIN s.vals : s.vals[k] = 0 })
  IN IF missing_data > 3 THEN (boosted * 8) \div 10 ELSE boosted

\* _calculate_confidence; p in thousandths, result in units of 1e-5.  The
\* zero count runs over every value of the dict, whatever its key.
CalculateConfidence(p, s) ==
  LET base == p * 100
      boosted == IF {"temperature", "vibration_x", "oil_level"} \subseteq Keys(s)
                 THEN (base * 11) \div 10 ELSE base
      missing_data == Cardinality({ k \in DOMAIN s.vals : s.vals[k] = 0 })
      reduced == IF missing_data > 3 THEN (boosted * 8) \div 10 ELSE boosted
  IN IF reduced < 95000 THEN reduced ELSE 95000

\* -------------------------------------------------- FailureTypeClassifier
ImportanceGet(imp, k) == IF k \in DOMAIN imp THEN imp[k] ELSE 0

AppendIf(seq, cond, x) == IF cond THEN Append(seq, x) ELSE seq

\* A classifier whose thresholds fall as the importance grows.
DetermineFailureTypeNarrowing(s, imp) ==
  LET vibration_threshold == 450 - ImportanceGet(imp, "vibration_x") * 2
      temperature_threshold == 8000 - ImportanceGet(imp, "temperature") * 10
      t1 == AppendIf(<< >>, Get(s, "vibration_x") > vibration_threshold, "imbalance_x")
      t2 == AppendIf(t1, Get(s, "vibration_y") > vibration_threshold, "imbalance_y")
      t3 == AppendIf(t2, Get(s, "vibration_z") > vibration_threshold, "imbalance_z")
      t4 == AppendIf(t3, Get(s, "temperature") > temperature_threshold, "overheating")
      t5 == AppendIf(t4, Get(s, "oil_level") < 30, "oil_shortage")
      t6 == AppendIf(t5, Get(s, "oil_quality") < 40, "oil_contamination")
      t7 == AppendIf(t6, Get(s, "bearing_temperature") > 8500, "bearing_damage")
      t8 == AppendIf(t7, Get(s, "flow_rate") < 5000, "low_efficiency")
  IN IF t8 = << >> THEN << "no_obvious_failure" >> ELSE t8

\* _determine_failure_type: the labels joined by the separator, or the
\* sentinel.  One threshold, from the importance of vibration_x, serves the
\* three axes.
DetermineFailureType(s, imp) ==
  LET vibration_threshold == 450 + ImportanceGet(imp, "vibration_x") * 2
      temperature_threshold == 8000 + ImportanceGet(imp, "temperature") * 10
      t1 == AppendIf(<< >>, Get(s, "vibration_x") > vibration_threshold, "imbalance_x")
      t2 == AppendIf(t1, Get(s, "vibration_y") > vibration_threshold, "imbalance_y")
      t3 == AppendIf(t2, Get(s, "vibration_z") > vibration_threshold, "imbalance_z")
      t4 == AppendIf(t3, Get(s, "temperature") > temperature_threshold, "overheating")
      t5 == AppendIf(t4, Get(s, "oil_level") < 30, "oil_shortage")
      t6 == AppendIf(t5, Get(s, "oil_quality") < 40, "oil_contamination")
      t7 == AppendIf(t6, Get(s, "bearing_temperature") > 8500, "bearing_damage")
      t8 == AppendIf(t7, Get(s, "flow_rate") < 5000, "low_efficiency")
  IN IF t8 = << >> THEN << "no_obvious_failure" >> ELSE t8

FailureTypeRaises(s) ==
  \E k \in {"vibration_x", "vibration_y", "vibration_z", "temperature",
            "oil_level", "oil_quality", "bearing_temperature", "flow_rate"} :
     HoldsNone(s, k)

\* --------------------------------------------------- RecommendationEngine
\* An append that leaves the priority counter where it is.
RecommendSamePriority(acc, cond, text) ==
  IF cond
    THEN [recs |-> Append(acc.recs, [priority |-> acc.priority, text |-> text]),
          priority |-> acc.priority]
    ELSE acc

\* recommendations.append(f"{priority}. ...") followed by priority += 1.
Recommend(acc, cond, text) ==
  IF cond
    THEN [recs |-> Append(acc.recs, [priority |-> acc.priority, text |-> text]),
          priority |-> acc.priority + 1]
    ELSE acc

\* An ending that returns the list as it is.
OrNothing(recommendations) == recommendations

\* Lines 519-520: an empty list gets the one unnumbered message.
OrOperatingNormally(recommendations) ==
  IF recommendations = << >>
    THEN << [priority |-> 0, text |-> "operating_normally"] >>
    ELSE recommendations

\* An engine that tests the oil level before the risk level.
GenerateRecommendationsOilFirst(s, p, risk_level) ==
  LET r0 == [recs |-> << >>, priority |-> 1]
      r1 == Recommend(r0, Get(s, "oil_level") < 20, "urgent_oil_top_up")
      r2 == Recommend(r1, risk_level \in {"Critical", "High"}, "emergency_stop")
      r3 == Recommend(r2, Get(s, "temperature") > 9000, "urgent_cooling")
      r4 == IF p > 600 THEN Recommend(r3, TRUE, "maintenance_within_24h")
            ELSE IF p > 400 THEN Recommend(r3, TRUE, "maintenance_within_3_days")
            ELSE IF p > 200 THEN Recommend(r3, TRUE, "maintenance_within_a_week")
            ELSE r3
      r5 == Recommend(r4, Get(s, "oil_quality") < 50, "oil_replacement")
      r6 == Recommend(r5, \E k \in {"vibration_x", "vibration_y", "vibration_z"} :
                            Get(s, k) > 400, "vibration_inspection")
  IN OrOperatingNormally(r6.recs)

\* _generate_recommendations; p in thousandths.
GenerateRecommendations(s, p, risk_level) ==
  LET r0 == [recs |-> << >>, priority |-> 1]
      r1 == Recommend(r0, risk_level \in {"Critical", "High"}, "emergency_stop")
      r2 == Recommend(r1, Get(s, "oil_level") < 20, "urgent_oil_top_up")
      r3 == Recommend(r2, Get(s, "temperature") > 9000, "urgent_cooling")
      r4 == IF p > 600 THEN Recommend(r3, TRUE, "maintenance_within_24h")
            ELSE IF p > 400 THEN Recommend(r3, TRUE, "maintenance_within_3_days")
            ELSE IF p > 200 THEN Recommend(r3, TRUE, "maintenance_within_a_week")
            ELSE r3
      r5 == Recommend(r4, Get(s, "oil_quality") < 50, "oil_replacement")
      r6 == Recommend(r5, \E k \in {"vibration_x", "vibration_y", "vibration_z"} :
                            Get(s, k) > 400, "vibration_inspection")
  IN OrOperatingNormally(r6.recs)

\* any(v > 4.0 for v in [x, y, z]) stops at the first axis above 4.0.
RecommendationsRaise(s) ==
  \/ \E k \in {"oil_level", "temperature", "oil_quality"} : HoldsNone(s, k)
  \/ HoldsNone(s, "vibration_x")
  \/ /\ Get(s, "vibration_x") <= 400
     /\ \/ HoldsNone(s, "vibration_y")
        \/ Get(s, "vibration_y") <= 400 /\ HoldsNone(s, "vibration_z")

\* _suggest_maintenance_timing; p in thousandths.
SuggestMaintenanceTiming(p, s) ==
  IF p > 700 THEN "immediate"
  ELSE IF p > 500 THEN "urgent"
  ELSE IF p > 300 THEN "soon"
  ELSE IF Get(s, "operating_hours") > 300000 THEN "preventive_monthly"
  ELSE "routine_quarterly"

MaintenanceTimingRaises(p, s) == p <= 300 /\ HoldsNone(s, "operating_hours")

\* The keys of feature_importance in the order get_feature_importance left
\* them: by importance, largest first, ties in feature order.
RECURSIVE ImportanceOrder(_, _)
ImportanceOrder(imp, left) ==
  IF left = << >> THEN << >>
  ELSE LET best == CHOOSE i \in 1..Len(left) :
                     /\ \A j \in 1..Len(left) : imp[left[j]] <= imp[left[i]]
                     /\ \A j \in 1..(i - 1) : imp[left[j]] < imp[left[i]]
           rest == SelectSeq(left, LAMBDA f : f # left[best])
       IN << left[best] >> \o ImportanceOrder(imp, rest)

\* _get_feature_contributions: value * importance * 10 rounded to 4 places,
\* in units of 1e-4.  A None value ends the loop (the TypeError is
\* swallowed) and the entries made so far are returned.
RECURSIVE ContributionsUpTo(_, _, _)
ContributionsUpTo(s, imp, order) ==
  IF order = << >> THEN { }
  ELSE IF HoldsNone(s, Head(order)) THEN { }
  ELSE { Head(order) } \cup ContributionsUpTo(s, imp, Tail(order))

GetFeatureContributions(s, imp) ==
  LET order == ImportanceOrder(imp, SelectSeq(Features, LAMBDA f : f \in DOMAIN imp))
  IN [f \in ContributionsUpTo(s, imp, order) |->
        Round4(Get(s, f) * imp[f] * 10 * 10)]

\* ----------------------------------------------------------- the results
\* _get_error_response.
GetErrorResponse(error_msg) ==
  [failure_probability |-> 0,
   prediction |-> 0,
   predicted_failure_type |-> << "prediction_error" >>,
   confidence |-> 0,
   risk_level |-> "Unknown",
   risk_color |-> "#6c757d",
   recommendations |-> << [priority |-> 0, text |-> "check_ai_system"],
                          [priority |-> 0, text |-> "review_logs"] >>,
   maintenance_timing |-> "undetermined",
   feature_contributions |-> EmptyImportance,
   timestamp |-> "now",
   model_accuracy |-> 0,
   error |-> error_msg]

\* get_model_info on a manager with the given fields: last_trained is the
\* timestamp of the last record of the in-memory history, or the 'not
\* available' placeholder when that history is empty.
GetModelInfo(trained, acc, imp, history) ==
  [is_trained |-> trained,
   accuracy |-> acc,
   model_type |-> "XGBoost",
   feature_importance |-> imp,
   last_trained |-> IF history # << >>
                      THEN [st |-> "timestamp",
                            timestamp |-> history[Len(history)].timestamp]
                      ELSE [st |-> "not_available"],
   features_count |-> Len(Features)]

\* The dict predict_failure returns at lines 394-407.
PredictionResult(s, p, imp, acc) ==
  LET risk == CalculateRiskLevel(p, s)
  IN [failure_probability |-> Round4(p * 100),
      prediction |-> BoolToInt(p > 500),
      predicted_failure_type |-> DetermineFailureType(s, imp),
      confidence |-> Round4(CalculateConfidence(p, s)),
      risk_level |-> risk.level,
      risk_color |-> risk.color,
      recommendations |-> GenerateRecommendations(s, p, risk.level),
      maintenance_timing |-> SuggestMaintenanceTiming(p, s),
      feature_contributions |-> GetFeatureContributions(s, imp),
      timestamp |-> "now",
      model_accuracy |-> acc,
      missing_features |-> MissingFeatures(s)]

\* A TypeError raised between lines 383 and 392.
ScoringRaises(s, p) ==
  \/ RiskLevelRaises(s)
  \/ FailureTypeRaises(s)
  \/ RecommendationsRaise(s)
  \/ MaintenanceTimingRaises(p, s)

\* ------------------------------------------------------------- the inputs
\* Readings of a healthy pump, as dashboard.generate_sensor_data draws them.
NominalReadings ==
  [k \in FeatureSet |->
     CASE k = "vibration_x" -> 200
       [] k = "vibration_y" -> 220
       [] k = "vibration_z" -> 180
       [] k = "temperature" -> 7000
       [] k = "pressure" -> 15000
       [] k = "flow_rate" -> 10000
       [] k = "power_consumption" -> 8000
       [] k = "operating_hours" -> 100000
       [] k = "bearing_temperature" -> 7000
       [] k = "oil_level" -> 80
       [] k = "oil_quality" -> 90]

\* temperature 95, oil_level 0.1, vibration_x 7.0, every other feature 0.
CriticalReadings ==
  [k \in FeatureSet |->
     CASE k = "temperature" -> 9500
       [] k = "oil_level" -> 10
       [] k = "vibration_x" -> 700
       [] OTHER -> 0]

\* Readings of a pump that vibrates on the three axes, between 4.4 and 5,
\* and runs warm.
VibratingReadings ==
  [k \in FeatureSet |->
     CASE k = "vibration_x" -> 480
       [] k = "vibration_y" -> 480
       [] k = "vibration_z" -> 445
       [] k = "temperature" -> 8150
       [] OTHER -> NominalReadings[k]]

\* The dict with the readings but the dropped keys, the keys in noned
\* holding None, and the extra keys added.
MakeSnapshot(readings, dropped, noned, extras) ==
  [vals |-> [k \in ((DOMAIN readings \ dropped) \ noned) \cup DOMAIN extras |->
               IF k \in DOMAIN extras THEN extras[k] ELSE readings[k]],
   nones |-> noned \ DOMAIN extras]

NoExtras == [k \in {} |-> 0]

\* The snapshots the UI thread passes in the lifecycle specification.
Snapshots ==
  { MakeSnapshot(NominalReadings, {}, {}, NoExtras),
    MakeSnapshot(NominalReadings, {"temperature", "pressure"}, {}, NoExtras),
    MakeSnapshot(CriticalReadings, FeatureSet, {}, NoExtras) }

\* The probabilities predict_proba may return (thousandths).
Probabilities == { 100, 900 }

\* ---------------------------------------------------------------- training
\* train_model's except branch logs and re-raises.  In the training thread
\* run() catches it and emits training_finished(False, ...); in the UI
\* thread the call came from predict_failure, line 356, outside its try, so
\* predict_failure raises.
TrainRaises(t, why) ==
  /\ faults < MaxFaults
  /\ faults' = faults + 1
  /\ trainOutcome' = [trainOutcome EXCEPT ![t] = why]
  /\ trainRun' = [trainRun EXCEPT ![t] = 0]
  /\ pc' = [pc EXCEPT ![t] = IF t = "ui" THEN "pred_return" ELSE "idle"]
  /\ outcome' = IF t = "ui" THEN [kind |-> "raised"] ELSE outcome

\* SettingsTab.retrain_model starts a ModelTrainingThread whose run() calls
\* train_model on the shared predictor.
StartTraining ==
  /\ pc["trainer"] = "idle"
  /\ runs < MaxRuns
  /\ runs' = runs + 1
  /\ trainRun' = [trainRun EXCEPT !["trainer"] = runs + 1]
  /\ pc' = [pc EXCEPT !["trainer"] = "train_data"]
  /\ trainOutcome' = [trainOutcome EXCEPT !["trainer"] = "none"]
  /\ UNCHANGED << files, manager, callState, restarts, faults >>
  /\ UNCHANGED anomalyState

\* Lines 282-294: generate the data and split it.
TrainData(t) ==
  /\ pc[t] = "train_data"
  /\ \/ /\ pc' = [pc EXCEPT ![t] = "train_imputer"]
        /\ UNCHANGED << outcome, trainOutcome, faults, trainRun >>
     \/ TrainRaises(t, "failed_before_fit")
  /\ UNCHANGED << files, manager, sensor_data, call, scored, runs, restarts >>
  /\ UNCHANGED anomalyState

\* Line 297, preprocess_features line 82: the imputer is refitted in place.
TrainImputer(t) ==
  /\ pc[t] = "train_imputer"
  /\ preprocessor' = [preprocessor EXCEPT !.imputer = trainRun[t]]
  /\ pc' = [pc EXCEPT ![t] = "train_scaler"]
  /\ UNCHANGED << files, model, is_trained, accuracy, feature_importance,
                  model_history, trainRun, callState, trainOutcome, counters >>
  /\ UNCHANGED anomalyState

\* Line 297, preprocess_features line 88: the scaler is refitted in place.
TrainScaler(t) ==
  /\ pc[t] = "train_scaler"
  /\ preprocessor' = [preprocessor EXCEPT !.scaler = trainRun[t]]
  /\ pc' = [pc EXCEPT ![t] = "train_cv"]
  /\ UNCHANGED << files, model, is_trained, accuracy, feature_importance,
                  model_history, trainRun, callState, trainOutcome, counters >>
  /\ UNCHANGED anomalyState

\* Lines 298-303: transform the test split, cross-validate on clones.
TrainCV(t) ==
  /\ pc[t] = "train_cv"
  /\ \/ /\ pc' = [pc EXCEPT ![t] = "train_fit"]
        /\ UNCHANGED << outcome, trainOutcome, faults, trainRun >>
     \/ TrainRaises(t, "failed_before_fit")
  /\ UNCHANGED << files, manager, sensor_data, call, scored, runs, restarts >>
  /\ UNCHANGED anomalyState

\* Line 306: self.model.fit, in place.
TrainFit(t) ==
  /\ pc[t] = "train_fit"
  /\ \/ /\ model' = trainRun[t]
        /\ pc' = [pc EXCEPT ![t] = "train_eval"]
        /\ UNCHANGED << outcome, trainOutcome, faults, trainRun >>
     \/ /\ TrainRaises(t, "failed_before_fit")
        /\ UNCHANGED model
  /\ UNCHANGED << files, preprocessor, is_trained, accuracy,
                  feature_importance, model_history, sensor_data, call, scored,
                  runs, restarts >>
  /\ UNCHANGED anomalyState

\* Lines 309-324: the metrics of self.model and its importances.
TrainEval(t) ==
  /\ pc[t] = "train_eval"
  /\ accuracy' = model
  /\ feature_importance' = FittedImportance
  /\ pc' = [pc EXCEPT ![t] = "train_dump_model"]
  /\ UNCHANGED << files, model, preprocessor, is_trained, model_history,
                  trainRun, callState, trainOutcome, counters >>
  /\ UNCHANGED anomalyState

\* Lines 327-330: joblib.dump(self.model, model_path), written in place.
TrainDumpModel(t) ==
  /\ pc[t] = "train_dump_model"
  /\ \/ /\ modelFile' = FileOf(model)
        /\ pc' = [pc EXCEPT ![t] = "train_dump_prep"]
        /\ UNCHANGED << outcome, trainOutcome, faults, trainRun >>
     \/ /\ modelFile' \in { modelFile, CorruptFile }
        /\ TrainRaises(t, "failed_save")
  /\ UNCHANGED << prepFile, metaFile, manager, sensor_data, call, scored,
                  runs, restarts >>
  /\ UNCHANGED anomalyState

\* Line 331: joblib.dump(self.preprocessor, ...).
TrainDumpPreprocessor(t) ==
  /\ pc[t] = "train_dump_prep"
  /\ \/ /\ prepFile' = FileOf(preprocessor)
        /\ pc' = [pc EXCEPT ![t] = "train_save_meta"]
        /\ UNCHANGED << outcome, trainOutcome, faults, trainRun >>
     \/ /\ prepFile' \in { prepFile, CorruptFile }
        /\ TrainRaises(t, "failed_save")
  /\ UNCHANGED << modelFile, metaFile, manager, sensor_data, call, scored,
                  runs, restarts >>
  /\ UNCHANGED anomalyState

\* The record save_model_metadata builds, lines 50-56.
Metadata(run, acc) == [timestamp |-> run, accuracy |-> acc]

\* Line 334, save_model_metadata: append to the in-memory history, then
\* rewrite the file (mode 'w') with the in-memory history.
SaveModelMetadata(t) ==
  /\ pc[t] = "train_save_meta"
  /\ model_history' = Append(model_history, Metadata(trainRun[t], accuracy))
  /\ \/ /\ metaFile' = FileOf(model_history')
        /\ pc' = [pc EXCEPT ![t] = "train_done"]
        /\ UNCHANGED << outcome, trainOutcome, faults, trainRun >>
     \/ /\ metaFile' \in { metaFile, CorruptFile }
        /\ TrainRaises(t, "failed_save")
  /\ UNCHANGED << modelFile, prepFile, model, preprocessor, is_trained,
                  accuracy, feature_importance, sensor_data, call, scored,
                  runs, restarts >>
  /\ UNCHANGED anomalyState

\* train_model returning without the assignment of line 336.
TrainDoneKeepsFlag(t) ==
  /\ pc[t] = "train_done"
  /\ trainOutcome' = [trainOutcome EXCEPT ![t] = "ok"]
  /\ trainRun' = [trainRun EXCEPT ![t] = 0]
  /\ pc' = [pc EXCEPT ![t] = IF t = "ui" THEN "pred_transform" ELSE "idle"]
  /\ UNCHANGED << files, manager, callState, counters >>
  /\ UNCHANGED anomalyState

\* Lines 336-346: is_trained = True, return the metrics.
TrainDone(t) ==
  /\ pc[t] = "train_done"
  /\ is_trained' = TRUE
  /\ trainOutcome' = [trainOutcome EXCEPT ![t] = "ok"]
  /\ trainRun' = [trainRun EXCEPT ![t] = 0]
  /\ pc' = [pc EXCEPT ![t] = IF t = "ui" THEN "pred_transform" ELSE "idle"]
  /\ UNCHANGED << files, model, preprocessor, accuracy, feature_importance,
                  model_history, callState, counters >>
  /\ UNCHANGED anomalyState

\* -------------------------------------------------------------- prediction
\* predict_failure, lines 352-356: a manager that is not trained trains
\* first, in the calling thread.
PredictFailure(s) ==
  /\ pc["ui"] = "idle"
  /\ is_trained \/ runs < MaxRuns
  /\ sensor_data' = s
  /\ scored' = NoScored
  /\ outcome' = NoOutcome
  /\ IF is_trained
       THEN /\ call' = [ready |-> TRUE, trainings |-> 0]
            /\ pc' = [pc EXCEPT !["ui"] = "pred_transform"]
            /\ UNCHANGED << trainRun, runs, trainOutcome >>
       ELSE /\ call' = [ready |-> FALSE, trainings |-> 1]
            /\ runs' = runs + 1
            /\ trainRun' = [trainRun EXCEPT !["ui"] = runs + 1]
            /\ trainOutcome' = [trainOutcome EXCEPT !["ui"] = "none"]
            /\ pc' = [pc EXCEPT !["ui"] = "train_data"]
  /\ UNCHANGED << files, manager, restarts, faults >>
  /\ UNCHANGED anomalyState

\* Lines 359-376: build the vector and transform it with self.preprocessor;
\* an unfitted imputer or scaler raises, which line 409 turns into the error
\* response.
PredictTransform ==
  /\ pc["ui"] = "pred_transform"
  /\ IF preprocessor.imputer = Unfitted \/ preprocessor.scaler = Unfitted
       THEN /\ outcome' = [kind |-> "returned",
                           value |-> GetErrorResponse("preprocessing")]
            /\ pc' = [pc EXCEPT !["ui"] = "pred_return"]
            /\ UNCHANGED scored
       ELSE /\ scored' = [scored EXCEPT !.imputer = preprocessor.imputer,
                                        !.scaler = preprocessor.scaler]
            /\ pc' = [pc EXCEPT !["ui"] = "pred_score"]
            /\ UNCHANGED outcome
  /\ UNCHANGED << files, manager, trainRun, sensor_data, call, trainOutcome,
                  counters >>
  /\ UNCHANGED anomalyState

\* Lines 379-411: score with self.model and build the result; an unfitted
\* classifier or a TypeError in the heuristics gives the error response.
PredictScore(p) ==
  /\ pc["ui"] = "pred_score"
  /\ IF model = Unfitted
       THEN /\ outcome' = [kind |-> "returned",
                           value |-> GetErrorResponse("not_fitted")]
            /\ UNCHANGED scored
       ELSE /\ scored' = [scored EXCEPT !.model = model, !.probability = p]
            /\ outcome' =
                 [kind |-> "returned",
                  value |-> IF ScoringRaises(sensor_data, p)
                              THEN GetErrorResponse("type_error")
                              ELSE PredictionResult(sensor_data, p,
                                     feature_importance, accuracy)]
  /\ pc' = [pc EXCEPT !["ui"] = "pred_return"]
  /\ UNCHANGED << files, manager, trainRun, sensor_data, call, trainOutcome,
                  counters >>
  /\ UNCHANGED anomalyState

\* The caller takes the result (or the exception) and the call is over.
PredictReturn ==
  /\ pc["ui"] = "pred_return"
  /\ pc' = [pc EXCEPT !["ui"] = "idle"]
  /\ sensor_data' = NoSnapshot
  /\ call' = NoCall
  /\ scored' = NoScored
  /\ outcome' = NoOutcome
  /\ trainOutcome' = [trainOutcome EXCEPT !["ui"] = "none"]
  /\ UNCHANGED << files, manager, trainRun, counters >>
  /\ UNCHANGED anomalyState

\* ------------------------------------------------------- the specification
Next ==
  \/ Construct
  \/ StartTraining
  \/ \E t \in Threads : TrainData(t)
  \/ \E t \in Threads : TrainImputer(t)
  \/ \E t \in Threads : TrainScaler(t)
  \/ \E t \in Threads : TrainCV(t)
  \/ \E t \in Threads : TrainFit(t)
  \/ \E t \in Threads : TrainEval(t)
  \/ \E t \in Threads : TrainDumpModel(t)
  \/ \E t \in Threads : TrainDumpPreprocessor(t)
  \/ \E t \in Threads : SaveModelMetadata(t)
  \/ \E t \in Threads : TrainDone(t)
  \/ \E s \in Snapshots : PredictFailure(s)
  \/ PredictTransform
  \/ \E p \in Probabilities : PredictScore(p)
  \/ PredictReturn

Spec == Init /\ [][Next]_vars

\* ------------------------------------------- the scoring specification
\* The manager as a completed training run of this process leaves it.
TrainedHere(imp) ==
  [model |-> 1, preprocessor |-> [imputer |-> 1, scaler |-> 1],
   is_trained |-> TRUE, accuracy |-> 1, feature_importance |-> imp,
   model_history |-> << Metadata(1, 1) >>]

\* The manager as the next process constructs it from those files.
LoadedAtConstruction ==
  LET m == LoadModel(FileOf(1), FileOf([imputer |-> 1, scaler |-> 1]),
                     FileOf(<< Metadata(1, 1) >>))
  IN [model |-> m.model, preprocessor |-> m.preprocessor,
      is_trained |-> m.is_trained, accuracy |-> m.accuracy,
      feature_importance |-> EmptyImportance,
      model_history |-> ModelManagerInit]

ExtraKeys == { "pump_id", "alarm_code", "is_running", "error_count" }

\* The snapshots of the scoring specification: three sets of readings, with
\* features dropped, features holding None, and keys outside the canonical
\* list (holding 0 or not).
ScoreSnapshots ==
  { MakeSnapshot(r, d, n, e) :
      r \in { NominalReadings, CriticalReadings, VibratingReadings },
      d \in { {}, {"temperature"}, {"oil_quality", "pressure"}, FeatureSet },
      n \in { {}, {"pressure"}, {"temperature"} },
      e \in { NoExtras, [k \in {"pump_id"} |-> 100],
              [k \in ExtraKeys |-> 0] } }

\* The probabilities of the scoring specification: the ends of [0, 1], the
\* edges of the risk bands with and without one critical factor, and values
\* between them.
ScoreProbabilities ==
  { 0, 100, 200, 250, 300, 400, 450, 500, 550, 600, 650, 700, 750, 800, 900,
    1000 }

InitScore ==
  /\ modelFile = FileOf(1)
  /\ prepFile = FileOf([imputer |-> 1, scaler |-> 1])
  /\ metaFile = FileOf(<< Metadata(1, 1) >>)
  /\ \E m \in { TrainedHere(imp) : imp \in ImportanceMaps }
              \cup { LoadedAtConstruction } :
       /\ model = m.model
       /\ preprocessor = m.preprocessor
       /\ is_trained = m.is_trained
       /\ accuracy = m.accuracy
       /\ feature_importance = m.feature_importance
       /\ model_history = m.model_history
  /\ pc = [t \in Threads |-> "idle"]
  /\ trainRun = [t \in Threads |-> 0]
  /\ sensor_data = NoSnapshot
  /\ call = NoCall
  /\ scored = NoScored
  /\ outcome = NoOutcome
  /\ trainOutcome = [t \in Threads |-> "none"]
  /\ runs = 1
  /\ restarts = 0
  /\ faults = 0
  /\ detector = AnomalyDetectorInit
  /\ detection = NoDetection

NextScore ==
  \/ \E s \in ScoreSnapshots : PredictFailure(s)
  \/ PredictTransform
  \/ \E p \in ScoreProbabilities : PredictScore(p)
  \/ PredictReturn

SpecScore == InitScore /\ [][NextScore]_vars

\* ---------------------------------------------------- the anomaly detector
\* A batch is the DataFrame passed to detect_anomalies: the number of its
\* rows and the names of its columns.
FullColumns == FeatureSet \cup { "timestamp" }

\* The columns of the frame analytics.generate_sample_historical_data makes.
AnalyticsColumns ==
  (FeatureSet \ { "operating_hours", "bearing_temperature" }) \cup { "timestamp" }

BatchRows == { 0, 10, 19, 20, 21 }

Batches ==
  { [rows |-> n, columns |-> c] :
      n \in BatchRows, c \in { FullColumns, AnalyticsColumns } }

\* Sensitivities in hundredths: the default 0.5, the configured 0.9, the ends
\* of [0, 1] and one above it.
Sensitivities == { 0, 50, 90, 100, 200 }

\* contamination = min(0.05 + sensitivity * 0.1, 0.2), in thousandths.
Contamination(sensitivity) ==
  IF 50 + sensitivity < 200 THEN 50 + sensitivity ELSE 200

\* Values of IsolationForest.decision_function in hundredths: negative for
\* the rows the forest isolates, 0 or more for the others.
RawScores == { -15, -10, -5, 0, 8 }
InlierScores == { 0, 8 }

\* The score vectors the fitted forest may give a batch of n rows: the first
\* two rows take any score, the other rows, the bulk of the batch, are
\* inliers with one score.
DecisionScores(n) ==
  { [i \in 1..n |-> IF i = 1 THEN a ELSE IF i = 2 THEN b ELSE c] :
      a \in RawScores, b \in RawScores, c \in InlierScores }

\* A bucketing whose medium band starts at 0.05 instead of below 0.
SeverityShifted(x) ==
  IF x < -10 THEN "high" ELSE IF x < 5 THEN "medium" ELSE "low"

\* The lambda of lines 619-621, x in hundredths.
Severity(x) == IF x < -10 THEN "high" ELSE IF x < 0 THEN "medium" ELSE "low"

AnnotationColumns == { "anomaly", "anomaly_score", "anomaly_severity" }

\* The frame with the three columns assigned.
Annotate(batch, anomaly, score, severity) ==
  [rows |-> batch.rows,
   columns |-> batch.columns \cup AnnotationColumns,
   anomaly |-> anomaly,
   anomaly_score |-> score,
   anomaly_severity |-> severity]

\* Lines 597-601: the defaults of a batch too small to fit on.
InsufficientData(batch) ==
  Annotate(batch, [i \in 1..batch.rows |-> FALSE],
           [i \in 1..batch.rows |-> 0], [i \in 1..batch.rows |-> "low"])

\* A detector whose floor is 10 rows.
DetectAnomaliesFloorTen(det, batch, sensitivity, scores) ==
  IF batch.rows < 10
    THEN [detector |-> det, fitted |-> FALSE, result |-> InsufficientData(batch)]
  ELSE IF ~ (FeatureSet \subseteq batch.columns)
    THEN [detector |-> det, fitted |-> FALSE, result |-> batch]
  ELSE [detector |-> [is_trained |-> TRUE,
                      contamination |-> Contamination(sensitivity)],
        fitted |-> TRUE,
        result |-> Annotate(batch, [i \in 1..batch.rows |-> scores[i] < 0],
                            scores,
                            [i \in 1..batch.rows |-> Severity(scores[i])])]

\* detect_anomalies on the detector det: the detector it leaves, whether it
\* fitted the forest, and the frame it returns.  sensor_data[features] raises
\* KeyError when a feature column is missing, and the except branch returns
\* the frame as it is.  fit_predict marks with -1 the rows whose
\* decision_function is negative.
DetectAnomaliesCall(det, batch, sensitivity, scores) ==
  IF batch.rows < 20
    THEN [detector |-> det, fitted |-> FALSE, result |-> InsufficientData(batch)]
  ELSE IF ~ (FeatureSet \subseteq batch.columns)
    THEN [detector |-> det, fitted |-> FALSE, result |-> batch]
  ELSE [detector |-> [is_trained |-> TRUE,
                      contamination |-> Contamination(sensitivity)],
        fitted |-> TRUE,
        result |-> Annotate(batch, [i \in 1..batch.rows |-> scores[i] < 0],
                            scores,
                            [i \in 1..batch.rows |-> Severity(scores[i])])]

\* analytics.update_pattern_analysis (or any caller) calls detect_anomalies.
DetectAnomalies(batch, sensitivity) ==
  /\ detection.kind = "none"
  /\ \E scores \in DecisionScores(batch.rows) :
       LET c == DetectAnomaliesCall(detector, batch, sensitivity, scores)
       IN /\ detector' = c.detector
          /\ detection' = [kind |-> "returned", batch |-> batch,
                           sensitivity |-> sensitivity, fitted |-> c.fitted,
                           result |-> c.result]
  /\ UNCHANGED << files, manager, pc, trainRun, callState, trainOutcome,
                  counters >>

\* The caller takes the frame and the call is over.
DetectReturn ==
  /\ detection.kind = "returned"
  /\ detection' = NoDetection
  /\ UNCHANGED << files, manager, pc, trainRun, callState, trainOutcome,
                  counters, detector >>

NextAnomaly ==
  \/ \E batch \in Batches : \E sensitivity \in Sensitivities :
       DetectAnomalies(batch, sensitivity)
  \/ DetectReturn

SpecAnomaly == Init /\ [][NextAnomaly]_vars

\* ---------------------------------------------------------------- claims
Returned == outcome.kind = "returned"
Succeeded == Returned /\ "error" \notin DOMAIN outcome.value

\* C1: predict_failure never raises: in every lifecycle state of the
\* manager, the not-Ready one with a failing implicit training pass
\* included, the call ends by returning a result.
C1_PredictNeverRaises == outcome.kind # "raised"

\* C2: whenever the manager is Ready (is_trained), the classifier it holds
\* is a fitted one; a load failure at construction leaves it not Ready.
C2_ReadyImpliesFitted == is_trained => model # Unfitted

\* C3: with no failure injected, every successful prediction transformed its
\* input with an imputer and a scaler and scored it with a classifier that
\* were all fitted in one and the same training run, also while a training
\* run is in progress on the manager.
C3_PredictionFromOneRun ==
  (Succeeded /\ faults = 0) =>
    /\ scored.imputer = scored.model
    /\ scored.scaler = scored.model

\* C4: two training runs never execute at the same time on the manager,
\* whether started by predict_failure or by the retraining thread.
C4_SingleTrainingRun ==
  ~ (pc["ui"] \in TrainPcs /\ pc["trainer"] \in TrainPcs)

\* C5: a predict_failure call made while the manager is not Ready runs one
\* training pass before predicting and, when the pass succeeds, predicts on
\* a Ready manager; a call made while the manager is Ready never runs a
\* training pass.
C5_ImplicitTrainingOnlyWhenNotReady ==
  /\ pc["ui"] \in TrainPcs => (~ call.ready /\ call.trainings = 1)
  /\ pc["ui"] \in { "pred_transform", "pred_score" } =>
       /\ is_trained
       /\ call.ready => call.trainings = 0
       /\ ~ call.ready => (call.trainings = 1 /\ trainOutcome["ui"] = "ok")
  /\ Returned =>
       /\ is_trained
       /\ call.trainings = IF call.ready THEN 0 ELSE 1

\* C5 witness: a call made on a manager that was not Ready has run its
\* training pass and is about to predict on a Ready manager.
C5_Witness ==
  /\ pc["ui"] = "pred_transform"
  /\ ~ call.ready
  /\ call.trainings = 1
  /\ is_trained

IsPrefix(a, b) == Len(a) <= Len(b) /\ SubSeq(b, 1, Len(a)) = a

\* C6: the persisted metadata history is append-only: as long as no failure
\* was injected, every step, a restart or a training run, leaves the
\* records already in the file in place and only adds records after them.
C6_HistoryAppendOnly ==
  [][ (faults' = 0 /\ metaFile.st = "ok") =>
        (metaFile'.st = "ok" /\ IsPrefix(metaFile.content, metaFile'.content))
    ]_vars

\* C7: when writing the model, the preprocessor or the metadata fails after
\* the classifier was fitted, the manager is Ready all the same.
C7_SaveFailureLeavesReady ==
  \A t \in Threads : trainOutcome[t] = "failed_save" => is_trained

RiskBands == { "Normal", "Low", "Medium", "High", "Critical" }

\* C8: for a snapshot whose values are all numbers, the result of
\* predict_failure has a failure_probability in [0, 1] and a risk_level that
\* is one of the five bands.
C8_ProbabilityAndBand ==
  (Returned /\ sensor_data.nones = {}) =>
    /\ outcome.value.failure_probability >= 0
    /\ outcome.value.failure_probability <= 10000
    /\ outcome.value.risk_level \in RiskBands

\* C9: a call with a snapshot missing N of the 11 canonical features ends by
\* returning a result whose missing_features names exactly those N features.
C9_MissingFeaturesReported ==
  pc["ui"] = "pred_return" =>
    /\ Returned
    /\ "missing_features" \in DOMAIN outcome.value
    /\ Len(outcome.value.missing_features)
         = Cardinality(FeatureSet \ Keys(sensor_data))
    /\ { outcome.value.missing_features[i] :
           i \in 1..Len(outcome.value.missing_features) }
         = FeatureSet \ Keys(sensor_data)

SameCanonical(a, b) ==
  \A f \in FeatureSet :
    /\ f \in DOMAIN a.vals <=> f \in DOMAIN b.vals
    /\ f \in a.nones <=> f \in b.nones
    /\ f \in DOMAIN a.vals => a.vals[f] = b.vals[f]

\* C10: unknown keys are ignored: a snapshot that agrees with the scored one
\* on every canonical feature gives the classifier the same vector and, on
\* the same manager, a result with the same failure_probability, risk_level,
\* confidence, failure type, recommendations and maintenance_timing.
C10_UnknownKeysIgnored ==
  Succeeded =>
    \A s2 \in ScoreSnapshots :
      SameCanonical(sensor_data, s2) =>
        LET r2 == PredictionResult(s2, scored.probability,
                                   feature_importance, accuracy)
        IN /\ InputFeatures(s2) = InputFeatures(sensor_data)
           /\ ~ ScoringRaises(s2, scored.probability)
           /\ r2.failure_probability = outcome.value.failure_probability
           /\ r2.risk_level = outcome.value.risk_level
           /\ r2.confidence = outcome.value.confidence
           /\ r2.predicted_failure_type = outcome.value.predicted_failure_type
           /\ r2.recommendations = outcome.value.recommendations
           /\ r2.maintenance_timing = outcome.value.maintenance_timing

\* The number of critical factors as the scoring rule words them, a missing
\* key counting as 0.
StatedFactors(s) ==
  Cardinality({ k \in { "temperature", "oil_level", "vibration_x" } :
                  CASE k = "temperature" -> Get(s, k) > 8500
                    [] k = "oil_level" -> Get(s, k) < 20
                    [] OTHER -> Get(s, k) > 600 })

\* The band the scoring rule assigns to probability p (thousandths) with c
\* critical factors.
StatedBand(p, c) ==
  CASE p + 100 * c >= 800 \/ c >= 2 -> "Critical"
    [] p + 100 * c < 800 /\ c < 2 /\ p + 100 * c >= 600 -> "High"
    [] c < 2 /\ p + 100 * c < 600 /\ p + 100 * c >= 400 -> "Medium"
    [] c < 2 /\ p + 100 * c < 400 /\ p + 100 * c >= 200 -> "Low"
    [] OTHER -> "Normal"

\* C11: the risk_level of a successful result is the band of the adjusted
\* probability p + 0.1 * c, c the number of critical factors (temperature
\* above 85, oil_level below 0.2, vibration_x above 6.0): Critical from 0.8
\* or with two factors, High from 0.6, Medium from 0.4, Low from 0.2, Normal
\* below.
C11_RiskBandAssignment ==
  Succeeded =>
    outcome.value.risk_level
      = StatedBand(scored.probability, StatedFactors(sensor_data))

\* C11 witness: one critical factor lifts probability 0.7 onto the edge of
\* the Critical band.
C11_Witness ==
  /\ Succeeded
  /\ StatedFactors(sensor_data) = 1
  /\ scored.probability = 700
  /\ outcome.value.risk_level = "Critical"

\* The order of the five bands.
Rank(level) ==
  CASE level = "Normal" -> 0
    [] level = "Low" -> 1
    [] level = "Medium" -> 2
    [] level = "High" -> 3
    [] level = "Critical" -> 4

\* The snapshot s with key k holding the number v and nothing else changed.
WithValue(s, k, v) ==
  [vals |-> [x \in DOMAIN s.vals \cup {k} |-> IF x = k THEN v ELSE s.vals[x]],
   nones |-> s.nones \ {k}]

\* Temperatures above 85 (hundredths).
HotTemperatures == { 8501, 9000, 9500, 12000 }

\* C12: the risk level is monotone in temperature: for a successful result
\* on a snapshot whose temperature is at most 85, the same probability with
\* only the temperature changed to a value above 85 gives a band of the same
\* or a higher rank.
C12_MonotoneInTemperature ==
  (Succeeded /\ Get(sensor_data, "temperature") <= 8500) =>
    \A hot \in HotTemperatures :
      Rank(CalculateRiskLevel(scored.probability,
                              WithValue(sensor_data, "temperature", hot)).level)
        >= Rank(outcome.value.risk_level)

\* C12 witness: a result at temperature 70 whose band rises when only the
\* temperature is changed to a value above 85.
C12_Witness ==
  /\ Succeeded
  /\ Get(sensor_data, "temperature") = 7000
  /\ \E hot \in HotTemperatures :
       Rank(CalculateRiskLevel(scored.probability,
                               WithValue(sensor_data, "temperature", hot)).level)
         > Rank(outcome.value.risk_level)

\* C13: a successful result for a snapshot with two or more critical factors
\* (such as temperature 95, oil_level 0.1, vibration_x 7.0) has risk_level
\* Critical whatever the model probability, and its first recommendation is
\* the emergency stop, numbered 1.
C13_CriticalOverride ==
  (Succeeded /\ StatedFactors(sensor_data) >= 2) =>
    /\ outcome.value.risk_level = "Critical"
    /\ Len(outcome.value.recommendations) >= 1
    /\ outcome.value.recommendations[1]
         = [priority |-> 1, text |-> "emergency_stop"]

\* C13 witness: model probability 0 and two critical factors, emergency
\* stop first.
C13_Witness ==
  /\ Succeeded
  /\ StatedFactors(sensor_data) = 2
  /\ scored.probability = 0
  /\ outcome.value.risk_level = "Critical"
  /\ outcome.value.recommendations[1].text = "emergency_stop"

\* The feature each label of the classifier is about.
LabelFeature(label) ==
  CASE label = "imbalance_x" -> "vibration_x"
    [] label = "imbalance_y" -> "vibration_y"
    [] label = "imbalance_z" -> "vibration_z"
    [] label = "overheating" -> "temperature"
    [] label = "oil_shortage" -> "oil_level"
    [] label = "oil_contamination" -> "oil_quality"
    [] label = "bearing_damage" -> "bearing_temperature"
    [] label = "low_efficiency" -> "flow_rate"

\* C14: a missing key never triggers a rule of the failure type classifier:
\* every label of a successful result is about a feature the snapshot
\* holds, and a snapshot without any key gets the 'no obvious failure'
\* sentinel.
C14_MissingKeyTriggersNoRule ==
  Succeeded =>
    LET types == outcome.value.predicted_failure_type
    IN /\ types # << "no_obvious_failure" >> =>
            \A i \in 1..Len(types) : LabelFeature(types[i]) \in Keys(sensor_data)
       /\ Keys(sensor_data) = {} => types = << "no_obvious_failure" >>

\* The place of a recommendation in the fixed rule order.
RuleIndex(text) ==
  CASE text = "emergency_stop" -> 1
    [] text = "urgent_oil_top_up" -> 2
    [] text = "urgent_cooling" -> 3
    [] text \in { "maintenance_within_24h", "maintenance_within_3_days",
                  "maintenance_within_a_week" } -> 4
    [] text = "oil_replacement" -> 5
    [] text = "vibration_inspection" -> 6

\* recs is the message of a pump with nothing to recommend, or a list in rule
\* order numbered 1, 2, 3, ...
OrderedAndNumbered(recs) ==
  \/ recs = << [priority |-> 0, text |-> "operating_normally"] >>
  \/ /\ \A i \in 1..Len(recs) : recs[i].priority = i
     /\ \A i \in 1..Len(recs) : \A j \in (i + 1)..Len(recs) :
          RuleIndex(recs[i].text) < RuleIndex(recs[j].text)

\* C15: for the snapshot and probability of a successful result and for
\* every risk level, the recommendations that fire are in the fixed rule
\* order (emergency stop, urgent oil top-up, urgent cooling, maintenance
\* window, oil replacement, vibration inspection) and are numbered 1, 2, 3,
\* ... with no gap or repeat.
C15_RecommendationOrder ==
  Succeeded =>
    /\ OrderedAndNumbered(outcome.value.recommendations)
    /\ \A level \in RiskBands :
         OrderedAndNumbered(GenerateRecommendations(sensor_data,
                              scored.probability, level))

\* C15 witness: a result with all six recommendations.
C15_Witness ==
  /\ Succeeded
  /\ Len(outcome.value.recommendations) = 6
  /\ outcome.value.recommendations[6]
       = [priority |-> 6, text |-> "vibration_inspection"]

\* min(0.95, p * a * b) in units of 1e-5, p in thousandths: a is 1.1 (11
\* tenths) when the three keys are present, b is 0.8 (8 tenths) when more
\* than 3 values of the snapshot are 0.
StatedConfidence(p, s) ==
  LET a == IF \A k \in { "temperature", "vibration_x", "oil_level" } :
                 k \in Keys(s)
           THEN 11 ELSE 10
      zeros == { k \in DOMAIN s.vals : s.vals[k] = 0 }
      b == IF Cardinality(zeros) > 3 THEN 8 ELSE 10
  IN IF p * a * b > 95000 THEN 95000 ELSE p * a * b

\* C16: the confidence computed for the probability p and the snapshot of a
\* successful result is min(0.95, p * a * b), a = 1.1 when temperature,
\* vibration_x and oil_level are all present (else 1), b = 0.8 when more
\* than 3 values of the snapshot are exactly 0 (else 1); the result carries
\* it rounded to 4 places, within [0, 0.95].
C16_ConfidenceFormula ==
  Succeeded =>
    /\ CalculateConfidence(scored.probability, sensor_data)
         = StatedConfidence(scored.probability, sensor_data)
    /\ outcome.value.confidence
         = Round4(StatedConfidence(scored.probability, sensor_data))
    /\ outcome.value.confidence >= 0
    /\ outcome.value.confidence <= 9500

\* C16 witness: the three keys are present, fewer than 4 zeros, and the
\* cap cuts 0.9 * 1.1 down to 0.95.
C16_Witness ==
  /\ Succeeded
  /\ { "temperature", "vibration_x", "oil_level" } \subseteq Keys(sensor_data)
  /\ Cardinality({ k \in DOMAIN sensor_data.vals : sensor_data.vals[k] = 0 }) <= 3
  /\ scored.probability = 900
  /\ outcome.value.confidence = 9500

\* The fields of a successful result.
SuccessFields ==
  { "failure_probability", "prediction", "predicted_failure_type",
    "confidence", "risk_level", "risk_color", "recommendations",
    "maintenance_timing", "feature_contributions", "timestamp",
    "model_accuracy", "missing_features" }

\* C17: a result with an error field carries every field of a successful
\* result, missing_features included, with failure_probability, prediction,
\* confidence and model_accuracy zero and risk_level Unknown; a result
\* without an error field carries exactly the fields of a successful result.
C17_ErrorResultShape ==
  Returned =>
    IF "error" \in DOMAIN outcome.value
      THEN /\ SuccessFields \subseteq DOMAIN outcome.value
           /\ outcome.value.failure_probability = 0
           /\ outcome.value.prediction = 0
           /\ outcome.value.confidence = 0
           /\ outcome.value.model_accuracy = 0
           /\ outcome.value.risk_level = "Unknown"
      ELSE DOMAIN outcome.value = SuccessFields

Detected == detection.kind = "returned"

\* C18: for a batch of at least 20 rows holding every feature column, the
\* anomaly_score column of the frame detect_anomalies returns is min-max
\* normalized: every score lies in [0, 1] (hundredths) and, unless the
\* scores are all equal, the smallest is 0 and the largest is 1.
C18_ScoresNormalized ==
  (Detected /\ detection.batch.rows >= 20
     /\ FeatureSet \subseteq detection.batch.columns) =>
    LET score == detection.result.anomaly_score
        rows == 1..detection.batch.rows
    IN /\ \A i \in rows : score[i] >= 0 /\ score[i] <= 100
       /\ (\E i \in rows : \E j \in rows : score[i] # score[j]) =>
            /\ \E i \in rows : score[i] = 0
            /\ \E i \in rows : score[i] = 100

\* C19: for a batch of fewer than 20 rows, whatever the sensitivity,
\* detect_anomalies returns the rows of the batch with anomaly false,
\* anomaly_score 0.0 and anomaly_severity low in every row, and it did not
\* fit the outlier model.
C19_SmallBatchDefaults ==
  (Detected /\ detection.batch.rows < 20) =>
    /\ detection.result.rows = detection.batch.rows
    /\ detection.batch.columns \cup AnnotationColumns = detection.result.columns
    /\ \A i \in 1..detection.batch.rows :
         /\ detection.result.anomaly[i] = FALSE
         /\ detection.result.anomaly_score[i] = 0
         /\ detection.result.anomaly_severity[i] = "low"
    /\ ~ detection.fitted

\* C19 witness: a detector that was fitted by an earlier call is given a
\* batch of 19 rows and returns it with the defaults.
C19_Witness ==
  /\ Detected
  /\ detector.is_trained
  /\ detection.batch.rows = 19
  /\ ~ detection.fitted
  /\ \A i \in 1..19 : detection.result.anomaly_severity[i] = "low"

\* C20: at every moment, a failed write and a training run in progress
\* included, a manager constructed from the files as they are that loads a
\* fitted classifier loads with it a preprocessor whose imputer and scaler
\* were fitted in the same training run.
C20_PersistedPairFromOneRun ==
  LET m == LoadModel(modelFile, prepFile, metaFile)
  IN (m.is_trained /\ m.model # Unfitted) =>
       /\ m.preprocessor.imputer = m.model
       /\ m.preprocessor.scaler = m.model

\* The label of the rule of a vibration axis.
AxisLabel(axis) ==
  CASE axis = "vibration_x" -> "imbalance_x"
    [] axis = "vibration_y" -> "imbalance_y"
    [] axis = "vibration_z" -> "imbalance_z"

\* The labels of a failure type.
Labels(types) == { types[i] : i \in 1..Len(types) }

\* C21: in a successful result the rule of each vibration axis fired exactly
\* when the snapshot's value for that axis exceeds 4.5 + 2 * importance of
\* that same axis in the manager's feature_importance.
C21_PerAxisVibrationThreshold ==
  Succeeded =>
    \A axis \in { "vibration_x", "vibration_y", "vibration_z" } :
      AxisLabel(axis) \in Labels(outcome.value.predicted_failure_type)
        <=> Get(sensor_data, axis)
              > 450 + 2 * ImportanceGet(feature_importance, axis)

\* The labels of the rules whose threshold depends on an importance.
ThresholdLabels == { "imbalance_x", "imbalance_y", "imbalance_z", "overheating" }

\* Importance maps to compare the manager's map with.
ComparedImportances == ImportanceMaps \cup { EmptyImportance }

\* Every importance of map a is at most that of map b.
NoMoreImportant(a, b) ==
  \A k \in FeatureSet : ImportanceGet(a, k) <= ImportanceGet(b, k)

\* C22 as stated: the thresholds narrow as importance grows: a vibration or
\* temperature rule that fired for the snapshot of a successful result still
\* fires for it under any map that gives every feature at least the
\* importance the manager's map gives it.
C22_ThresholdsNarrowWithImportance ==
  Succeeded =>
    \A higher \in ComparedImportances :
      NoMoreImportant(feature_importance, higher) =>
        \A label \in ThresholdLabels :
          label \in Labels(outcome.value.predicted_failure_type) =>
            label \in Labels(DetermineFailureType(sensor_data, higher))

\* C22 amended: the thresholds grow with importance: a vibration or
\* temperature rule that fired for the snapshot of a successful result still
\* fires for it under any map that gives every feature at most the
\* importance the manager's map gives it.
C22_ThresholdsGrowWithImportance ==
  Succeeded =>
    \A lower \in ComparedImportances :
      NoMoreImportant(lower, feature_importance) =>
        \A label \in ThresholdLabels :
          label \in Labels(outcome.value.predicted_failure_type) =>
            label \in Labels(DetermineFailureType(sensor_data, lower))

\* C22 witness: at temperature 81.5 a manager with importance 0.2 for
\* temperature (threshold 82) does not report overheating, and the same
\* snapshot under importance 0 (threshold 80) does.
C22_Witness ==
  /\ Succeeded
  /\ ImportanceGet(feature_importance, "temperature") = 20
  /\ Get(sensor_data, "temperature") = 8150
  /\ "overheating" \notin Labels(outcome.value.predicted_failure_type)
  /\ "overheating" \in Labels(DetermineFailureType(sensor_data, EmptyImportance))

\* None of the six rules fires for snapshot s, probability p (thousandths)
\* and the risk level.
NoRuleFired(s, p, risk_level) ==
  /\ risk_level \notin { "Critical", "High" }
  /\ Get(s, "oil_level") >= 20
  /\ Get(s, "temperature") <= 9000
  /\ p <= 200
  /\ Get(s, "oil_quality") >= 50
  /\ \A axis \in { "vibration_x", "vibration_y", "vibration_z" } :
       Get(s, axis) <= 400

\* C23: the recommendation list of a successful result is never empty; it is
\* the single unnumbered 'operating normally' message exactly when none of
\* the six rules fired, and that message is absent when a rule fired.
C23_OperatingNormallyIffNoRule ==
  Succeeded =>
    LET recs == outcome.value.recommendations
        quiet == NoRuleFired(sensor_data, scored.probability,
                             outcome.value.risk_level)
    IN /\ Len(recs) >= 1
       /\ quiet <=> recs = << [priority |-> 0, text |-> "operating_normally"] >>
       /\ ~ quiet => \A i \in 1..Len(recs) : recs[i].text # "operating_normally"

\* C23 witness: a healthy pump at probability 0.1 gets the single message.
C23_Witness ==
  /\ Succeeded
  /\ NoRuleFired(sensor_data, scored.probability, outcome.value.risk_level)
  /\ scored.probability = 100
  /\ Len(outcome.value.recommendations) = 1
  /\ outcome.value.recommendations[1].text = "operating_normally"

\* C24: for a batch of at least 20 rows holding every feature column, the
\* severity of each row is bucketed from its score on the normalized scale
\* (hundredths): high above 0.8, medium above 0.5 and at most 0.8, low
\* otherwise.
C24_SeverityFromNormalizedScore ==
  (Detected /\ detection.batch.rows >= 20
     /\ FeatureSet \subseteq detection.batch.columns) =>
    \A i \in 1..detection.batch.rows :
      detection.result.anomaly_severity[i]
        = IF detection.result.anomaly_score[i] > 80 THEN "high"
          ELSE IF detection.result.anomaly_score[i] > 50 THEN "medium"
          ELSE "low"

\* C25: for every batch of at least 20 rows, one that lacks feature columns
\* included, the frame detect_anomalies returns has the three columns
\* anomaly, anomaly_score and anomaly_severity, with a value in every row.
C25_AlwaysAnnotated ==
  (Detected /\ detection.batch.rows >= 20) =>
    /\ AnnotationColumns \subseteq detection.result.columns
    /\ AnnotationColumns \subseteq DOMAIN detection.result
    /\ \A c \in AnnotationColumns :
         DOMAIN detection.result[c] = 1..detection.batch.rows

\* C30: in every annotated frame detect_anomalies returns, below or above
\* the 20-row floor, a row is flagged anomaly exactly when its severity is
\* medium or high, and an unflagged row has severity low.
C30_FlagAgreesWithSeverity ==
  (Detected /\ "anomaly" \in DOMAIN detection.result) =>
    \A i \in 1..detection.result.rows :
      /\ detection.result.anomaly[i]
           <=> detection.result.anomaly_severity[i] \in { "medium", "high" }
      /\ ~ detection.result.anomaly[i]
           => detection.result.anomaly_severity[i] = "low"

\* C30 witness: a fitted batch with a flagged row of high severity, a
\* flagged row of medium severity and an unflagged row whose score is 0.
C30_Witness ==
  /\ Detected
  /\ detection.fitted
  /\ detection.result.anomaly[1]
  /\ detection.result.anomaly_severity[1] = "high"
  /\ detection.result.anomaly[2]
  /\ detection.result.anomaly_severity[2] = "medium"
  /\ ~ detection.result.anomaly[3]
  /\ detection.result.anomaly_score[3] = 0

\* C26: the failure type and the feature_contributions of a successful
\* result are those the manager that ran the training returns for the
\* snapshot, also when the predicting manager was constructed by loading the
\* files that training run persisted.
C26_ImportanceSurvivesRoundTrip ==
  Succeeded =>
    /\ outcome.value.predicted_failure_type
         = DetermineFailureType(sensor_data, FittedImportance)
    /\ outcome.value.feature_contributions
         = GetFeatureContributions(sensor_data, FittedImportance)

FailedOutcomes == { "failed_before_fit", "failed_save" }

\* C27: a training run that fails on a Ready manager leaves nothing of
\* itself in the manager: after the failing step neither the classifier nor
\* the imputer nor the scaler is one fitted by the failed run, and accuracy,
\* feature_importance and is_trained are as before the step.
C27_FailedTrainingLeavesManager ==
  [][ \A t \in Threads :
        (is_trained /\ pc[t] \in TrainPcs /\ trainOutcome'[t] \in FailedOutcomes
           /\ trainOutcome[t] \notin FailedOutcomes) =>
          /\ model' # trainRun[t]
          /\ preprocessor'.imputer # trainRun[t]
          /\ preprocessor'.scaler # trainRun[t]
          /\ accuracy' = accuracy
          /\ feature_importance' = feature_importance
          /\ is_trained' = is_trained
    ]_vars

\* C28: whenever get_model_info reports is_trained true, its last_trained
\* is the timestamp of a training record and not the 'not available'
\* placeholder, after a training run of this process and after loading a
\* persisted model at construction.
C28_TrainedHasLastTrained ==
  LET info == GetModelInfo(is_trained, accuracy, feature_importance,
                           model_history)
  IN info.is_trained => info.last_trained.st = "timestamp"

\* The snapshot s without the keys that hold None.
WithoutNones(s) == [vals |-> s.vals, nones |-> {}]

\* C29: a call on a Ready manager with a snapshot in which canonical
\* features hold None returns a successful result that names those features
\* in missing_features and whose risk level, failure type, recommendations
\* and timing are those of the snapshot with these features absent.
C29_NoneHandledLikeAbsent ==
  (Returned /\ sensor_data.nones \cap FeatureSet # {}) =>
    /\ Succeeded
    /\ sensor_data.nones \cap FeatureSet
         \subseteq Labels(outcome.value.missing_features)
    /\ LET r == PredictionResult(WithoutNones(sensor_data), scored.probability,
                                 feature_importance, accuracy)
       IN /\ outcome.value.risk_level = r.risk_level
          /\ outcome.value.predicted_failure_type = r.predicted_failure_type
          /\ outcome.value.recommendations = r.recommendations
          /\ outcome.value.maintenance_timing = r.maintenance_timing

====
